---- MODULE Spec2Model ----
(***************************************************************************)
(* CoinbaseWalletProvider (wallet-sdk): the request-dispatch state machine *)
(* with its signer selection, silent resumption and session-key flows.     *)
(*                                                                         *)
(* One JavaScript task is modelled: every action is one synchronous run of *)
(* provider code, from a call or the resumption after an await up to the   *)
(* next await.  Collaborators (signer, popup channel, network, IndexedDB,  *)
(* WebCrypto) answer in steps of their own, so calls of disconnect(),      *)
(* signer events and other requests interleave at every await.             *)
(*                                                                         *)
(* request() is only given arguments that pass                             *)
(* checkErrorForInvalidRequestArgs (an object with a method name).         *)
(***************************************************************************)
EXTENDS Integers, Sequences, FiniteSets, TLC

\* ------------------------------------------------------------------ bounds
\* requests that may be in flight (suspended at an await) at the same time
MaxReq == 1
\* signer instances createSigner may build in one behaviour
MaxSigners == 2
\* key pairs crypto.subtle.generateKey may produce in one behaviour
MaxKeys == 1

\* bytes of one signature component (32 in the source, scaled down)
ComponentBytes == 1
\* bytes of the longest signature handed to extractRSFromSig
MaxSigLen == 3
MaxWriters == 2
MaxSegments == 3

\* --------------------------------------------------------------- constants
\* disconnect(): this.chain = { id: 1 }; constructor: appChainIds?.[0] ?? 1
DefaultChainId == 1

ChainIds == {DefaultChainId, 10}

NoUrl == "undefined"

Chains ==
  { [id |-> DefaultChainId, rpcUrl |-> NoUrl],
    [id |-> 10, rpcUrl |-> NoUrl],
    [id |-> 10, rpcUrl |-> "https://rpc10"] }

SignerTypes == {"scw", "walletlink"}

\* addresses as the wallet reports them; AddrA and AddrALower are the same
\* account in two spellings
AddrA == "0xAb"
AddrALower == "0xab"
AddrB == "0xCd"

Addresses == {AddrA, AddrALower, AddrB}

\* account lists a signer reports (handshake result, accounts update)
AccountLists == { <<AddrA>>, <<AddrB>> }

\* ---------------------------------------------------------- method table
\* the table with eth_sign listed under sign as well as under deprecated
MutantMappingShared ==
  << [category |-> "handshake", methods |-> <<"eth_requestAccounts">>],
     [category |-> "sign", methods |->
        << "eth_ecRecover", "personal_sign", "personal_ecRecover",
           "eth_signTransaction", "eth_sendTransaction",
           "eth_signTypedData_v1", "eth_signTypedData_v3",
           "eth_signTypedData_v4", "eth_signTypedData",
           "wallet_addEthereumChain", "wallet_switchEthereumChain",
           "wallet_watchAsset", "wallet_getCapabilities",
           "wallet_showCallsStatus", "wallet_grantPermissions",
           "eth_sign" >>],
     [category |-> "state", methods |->
        << "eth_chainId", "eth_accounts", "eth_coinbase", "net_version" >>],
     [category |-> "deprecated", methods |-> <<"eth_sign", "eth_signTypedData_v2">>],
     [category |-> "unsupported", methods |-> <<"eth_subscribe", "eth_unsubscribe">>],
     [category |-> "fetch", methods |-> << >>],
     [category |-> "signOrFetch", methods |-> <<"wallet_sendCalls">>] >>

mapping ==
  << [category |-> "handshake", methods |-> <<"eth_requestAccounts">>],
     [category |-> "sign", methods |->
        << "eth_ecRecover", "personal_sign", "personal_ecRecover",
           "eth_signTransaction", "eth_sendTransaction",
           "eth_signTypedData_v1", "eth_signTypedData_v3",
           "eth_signTypedData_v4", "eth_signTypedData",
           "wallet_addEthereumChain", "wallet_switchEthereumChain",
           "wallet_watchAsset", "wallet_getCapabilities",
           "wallet_showCallsStatus", "wallet_grantPermissions" >>],
     [category |-> "state", methods |->
        << "eth_chainId", "eth_accounts", "eth_coinbase", "net_version" >>],
     [category |-> "deprecated", methods |-> <<"eth_sign", "eth_signTypedData_v2">>],
     [category |-> "unsupported", methods |-> <<"eth_subscribe", "eth_unsubscribe">>],
     [category |-> "fetch", methods |-> << >>],
     [category |-> "signOrFetch", methods |-> <<"wallet_sendCalls">>] >>

\* Array.prototype.includes
includes(list, x) == \E i \in 1..Len(list) : list[i] = x

\* the members of the category set named c
MethodSet(c) ==
  UNION { { mapping[i].methods[j] : j \in 1..Len(mapping[i].methods) } :
          i \in { k \in 1..Len(mapping) : mapping[k].category = c } }

Categories == { mapping[i].category : i \in 1..Len(mapping) }

MappedMethods == UNION { MethodSet(c) : c \in Categories }

\* method names no category set holds
UnmappedMethods == {"eth_blockNumber", "wallet_getActivePermissions"}

Methods == MappedMethods \cup UnmappedMethods

\* for (const c in mapping): the categories visited in the order `order`,
\* the first one whose set includes the method is returned
RECURSIVE categoryFrom(_, _, _)
categoryFrom(order, i, method) ==
  IF i > Len(order) THEN "undefined"
  ELSE IF includes(mapping[order[i]].methods, method)
       THEN mapping[order[i]].category
       ELSE categoryFrom(order, i + 1, method)

\* the order in which the object literal lists its keys
SourceOrder == [i \in 1..Len(mapping) |-> i]

determineMethodCategory(method) == categoryFrom(SourceOrder, 1, method)

\* the lookup as it runs when the engine enumerates the keys in another order
determineMethodCategoryIn(order, method) == categoryFrom(order, 1, method)

\* determineMethodCategory(args.method) ?? 'fetch'
categoryOrFetch(method) ==
  IF determineMethodCategory(method) = "undefined" THEN "fetch"
  ELSE determineMethodCategory(method)

\* ------------------------------------------------------------ conversions
HexDigits == <<"0","1","2","3","4","5","6","7","8","9","a","b","c","d","e","f">>

RECURSIVE toHexDigits(_)
toHexDigits(n) ==
  IF n < Len(HexDigits) THEN HexDigits[n + 1]
  ELSE toHexDigits(n \div Len(HexDigits)) \o HexDigits[(n % Len(HexDigits)) + 1]

\* `0x${num.toString(16)}`
hexStringFromNumber(n) == "0x" \o toHexDigits(n)

\* viem numberToHex
numberToHex(n) == "0x" \o toHexDigits(n)

\* viem checksumAddress: one canonical spelling per account
checksumAddress(a) == IF a = AddrALower THEN AddrA ELSE a

\* key order of the 'keys' object store (getAll returns records in key order)
AddrRank(a) == IF a = AddrA THEN 1 ELSE IF a = AddrB THEN 2 ELSE 3

\* ------------------------------------------------------------- signatures
\* const n = BigInt('0xFFFFFFFF00000000FFFF...2551'): the order of P-256, a prime
\* just below 2^256; scaled with the component width to a prime just below 2^8
curveOrder == 2^8 - 5

\* byte values a signature is made of: the ends of the byte range and the
\* values around curveOrder / 2 and curveOrder
SigByteValues ==
  {0, 1, curveOrder \div 2, (curveOrder \div 2) + 1, curveOrder - 1, curveOrder, 2^8 - 1}

\* the decoded signatures: every byte string of ComponentBytes + 1 .. MaxSigLen
\* bytes (raw r || s, or longer as a DER encoding is)
Signatures ==
  UNION { [1..len -> SigByteValues] : len \in (ComponentBytes + 1)..MaxSigLen }

\* viem bytesToBigInt: big-endian, unsigned
RECURSIVE bytesToBigInt(_)
bytesToBigInt(bytes) ==
  IF Len(bytes) = 0 THEN 0
  ELSE bytesToBigInt(SubSeq(bytes, 1, Len(bytes) - 1)) * 2^8 + bytes[Len(bytes)]

\* Uint8Array.prototype.slice(from) and slice(0, to)
slice(bytes, from, to) == SubSeq(bytes, from + 1, IF to > Len(bytes) THEN Len(bytes) ELSE to)

\* extractRSFromSig on the decoded bytes of the signature
extractRSFromSig(signatureBytes) ==
  LET bR == slice(signatureBytes, 0, ComponentBytes)
      bS == slice(signatureBytes, ComponentBytes, Len(signatureBytes))
      r == bytesToBigInt(bR)
      sRaw == bytesToBigInt(bS)
  IN  [r |-> r, s |-> IF sRaw > curveOrder \div 2 THEN curveOrder - sRaw ELSE sRaw]

\* --------------------------------------------------------------- requests
NoParams == [none |-> TRUE]

GrantParams == { [permissions |-> << [signer |-> [type |-> t]] >>] : t \in {"wallet", "account"} }

SendCallsParams == { [capabilities |-> [permissions |-> [context |-> c]]] :
                     c \in {"undefined", "ctxCaller"} }

RequestArgs ==
  { [method |-> m, params |-> NoParams] :
      m \in Methods \ {"wallet_grantPermissions", "wallet_sendCalls"} }
  \cup { [method |-> "wallet_grantPermissions", params |-> p] : p \in GrantParams }
  \cup { [method |-> "wallet_sendCalls", params |-> p] : p \in SendCallsParams }

NoArgs == [method |-> "", params |-> NoParams]

\* error codes of standardErrors, by name
Unauthorized == "unauthorized"
MethodNotSupported == "methodNotSupported"
UnsupportedMethod == "unsupportedMethod"
Internal == "internal"
InvalidParams == "invalidParams"
UserRejected == "userRejectedRequest"

\* errors a collaborator (popup signer, network) may answer with
CollaboratorErrors == {UserRejected, Unauthorized}

VARIABLES
  accounts,     \* this.accounts
  chain,        \* this.chain
  signer,       \* this.signer: 0 is null, else the id of a signer instance
  signers,      \* the signer instances createSigner has built
  signerType,   \* the signer-type record of ScopedLocalStorage ("none": absent)
  keys,         \* the 'keys' object store of the IndexedDB database 'cbw'
  req,          \* the requests in flight, one per slot
  keyCount,     \* key pairs generated so far
  events,       \* notifications emitted by the last step, in order
  calls,        \* calls to and from collaborators in the last step, in order
  last,         \* what the last step delivered to a caller of request()
  catMethod,    \* categorizer harness: the method name
  catOrder,     \* categorizer harness: the iteration order of the categories
  catResult,    \* categorizer harness: the category found
  sigBytes,     \* signature harness: the decoded bytes of the signature
  sigOut,       \* signature harness: what extractRSFromSig returned
  stores,       \* key-store harness: the calls of storeKeyForAddress, one per writer
  written,      \* key-store harness: the arguments of the puts done, in order
  waIn,         \* assertion harness: the arguments of buildWebAuthnSignature
  waOut,        \* assertion harness: what buildWebAuthnSignature returned or threw
  handshaken    \* history: a signer handshake has succeeded since the last
                \* disconnect() (at construction: the stored type is its trace)

provider == <<accounts, chain, signer, signers, signerType, keys>>
logs == <<events, calls, last>>
cat == <<catMethod, catOrder, catResult, sigBytes, sigOut, stores, written, waIn, waOut>>
aux == <<catMethod, catOrder, catResult, sigBytes, sigOut, stores, written, waIn, waOut,
         handshaken>>
vars == <<accounts, chain, signer, signers, signerType, keys, req, keyCount,
          events, calls, last, catMethod, catOrder, catResult, sigBytes, sigOut,
          stores, written, waIn, waOut, handshaken>>

Slots == 1..MaxReq
SignerIds == 1..MaxSigners

\* get connected()
connected == Len(accounts) > 0

Unset == [found |-> "unset", dispatched |-> "unset"]

NoSigner == [type |-> "none", state |-> "absent"]

\* extractRSFromSig has not returned
NoSig == [none |-> TRUE]

\* no fill response has been received
NoFill == [none |-> TRUE]

\* the writers of the key-store harness
Writers == 1..MaxWriters

\* storeKeyForAddress has not been called by the writer
NoStore == [phase |-> "idle"]

\* buildWebAuthnSignature has no arguments / has not returned
NoAssertion == [none |-> TRUE]

Idle ==
  [pc |-> "idle", args |-> NoArgs, sid |-> 0, accts |-> << >>, key |-> 0,
   sent |-> NoArgs, addr |-> "", ctx |-> "", fill |-> NoFill,
   connects |-> 0,
   connAtIssue |-> FALSE, chainAtIssue |-> 0, prior |-> FALSE, quiet |-> TRUE]

Nothing == [kind |-> "none"]

\* the number of signer instances built so far
Built == Cardinality({ s \in SignerIds : signers[s].state # "absent" })

\* ------------------------------------------------------------------- Init
\* constructor: chain.id = appChainIds?.[0] ?? 1; a stored signer type makes
\* initSigner build a signer at once.  The 'keys' store outlives the page and
\* may hold a record of an earlier visit.
Init ==
  /\ accounts = << >>
  /\ \E c \in ChainIds : chain = [id |-> c, rpcUrl |-> NoUrl]
  /\ \E t \in SignerTypes \cup {"none"} :
       /\ signerType = t
       /\ handshaken = (t # "none")
       /\ signer = IF t = "none" THEN 0 ELSE 1
       /\ signers = [s \in SignerIds |->
                       IF s = 1 /\ t # "none" THEN [type |-> t, state |-> "wired"]
                       ELSE NoSigner]
  /\ keys \in { {},
                { [address |-> AddrA, key |-> 0, permissionsContext |-> "ctx0",
                   permissions |-> << [signer |-> [type |-> "passkey",
                                       data |-> [publicKey |-> [x |-> 0, y |-> 0]]]] >>] } }
  /\ req = [r \in Slots |-> Idle]
  /\ keyCount = 0
  /\ events = << >>
  /\ calls = << >>
  /\ last = Nothing
  /\ catMethod = ""
  /\ catOrder = SourceOrder
  /\ catResult = Unset
  /\ sigBytes = << >>
  /\ sigOut = NoSig
  /\ stores = [w \in Writers |-> NoStore]
  /\ written = << >>
  /\ waIn = NoAssertion
  /\ waOut = NoAssertion


\* ---------------------------------------------------------------- helpers
\* request() line by line for every method name: the category that is dispatched
categoryTable == [m \in Methods |-> categoryOrFetch(m)]

\* the logs are empty: the listeners and the caller have seen the last step
quiescent == events = << >> /\ calls = << >> /\ last = [kind |-> "none"]

\* the slot a new request is filed in: the lowest one not in use (0: none)
FreeSlot ==
  IF \A x \in 1..MaxReq : req[x].pc # "idle" THEN 0
  ELSE CHOOSE x \in 1..MaxReq : req[x].pc = "idle" /\ \A y \in 1..(x - 1) : req[y].pc # "idle"

ToSet(seq) == { seq[i] : i \in 1..Len(seq) }

\* core/type/util areAddressArraysEqual
areAddressArraysEqual(a, b) == Len(a) = Len(b) /\ ToSet(a) = ToSet(b)

\* the connect notification always names the default chain
MutantConnectDefaultChain(c) ==
  [type |-> "connect", chainId |-> hexStringFromNumber(DefaultChainId)]

\* a notification handed to EventEmitter.emit
Connect(c) == [type |-> "connect", chainId |-> hexStringFromNumber(c.id)]
DisconnectEvent == [type |-> "disconnect", code |-> "disconnected"]
AccountsChanged(a) == [type |-> "accountsChanged", accounts |-> a]
ChainChanged(c) == [type |-> "chainChanged", chainId |-> hexStringFromNumber(c.id)]

\* a call of a collaborator; conn: whether the request that makes the call was
\* issued while connected
Call(op, target, args, conn) == [op |-> op, target |-> target, args |-> args, conn |-> conn]

\* a signer's call of updateListener.<op> with value v
Update(op, s, v) ==
  [op |-> "updateListener", target |-> s, args |-> [method |-> op, params |-> v],
   conn |-> connected]

\* fetchRPCRequest(request, chain)
FetchCall(args, c, conn) ==
  [op |-> "fetchRPCRequest", target |-> 0, args |-> args, conn |-> conn, chain |-> c]

\* a slot that starts a flow for args
Begin(pc, args) ==
  [Idle EXCEPT !.pc = pc, !.args = args, !.connAtIssue = connected,
               !.chainAtIssue = chain.id, !.prior = (signer # 0)]

\* what request() hands its caller when the request of slot q ends;
\* serialized: the error went through serializeError(error, args.method)
Outcome(kind, q, code, value, serialized, disconnected) ==
  [kind |-> kind, args |-> q.args, code |-> code, value |-> value,
   serialized |-> serialized,
   tag |-> IF serialized THEN q.args.method ELSE "none",
   disconnected |-> disconnected,
   connAtIssue |-> q.connAtIssue, chainAtIssue |-> q.chainAtIssue,
   prior |-> q.prior, quiet |-> q.quiet, sid |-> q.sid, connects |-> q.connects,
   key |-> q.key, ctx |-> q.ctx, sent |-> q.sent, addr |-> q.addr, fill |-> q.fill]

Resolved(q, value) == Outcome("resolved", q, "none", value, FALSE, FALSE)

\* an async handler's rejection: request() returns the handler's promise
\* without awaiting it, so its catch block never sees the error
Rejected(q, code) == Outcome("rejected", q, code, "none", FALSE, FALSE)

\* the steps of a handshake or of a silent resumption
ConnectingPcs ==
  {"hs_select", "hs_handshake", "hs_resolved", "resume_getkey", "resume_hs", "resume_resolved"}

\* the connecting requests in flight other than slot r have seen the provider
\* state change under them
Disturb(rq, r) ==
  [x \in Slots |-> IF x # r /\ rq[x].pc \in ConnectingPcs
                   THEN [rq[x] EXCEPT !.quiet = FALSE] ELSE rq[x]]

\* ScopedLocalStorage.clearAll(): the signer-type record is dropped
clearAll(rec) == "none"

\* Signer.disconnect() on this.signer, when there is one
releaseSigner(sg, all) ==
  IF sg = 0 THEN all ELSE [all EXCEPT ![sg].state = "released"]

\* ------------------------------------------------------------- disconnect
\* async disconnect(): no await inside, the body runs in one go.  this.signer
\* keeps its value; the 'keys' store of IndexedDB is not touched.
disconnectBody ==
  /\ accounts' = << >>
  /\ chain' = [id |-> DefaultChainId, rpcUrl |-> NoUrl]
  /\ signers' = releaseSigner(signer, signers)
  /\ signerType' = clearAll(signerType)
  /\ handshaken' = FALSE
  /\ events' = << DisconnectEvent >>
  /\ calls' = IF signer = 0 THEN << >>
              ELSE << Call("signer.disconnect", signer, NoArgs, connected) >>
  /\ UNCHANGED <<signer, keys>>

disconnect ==
  /\ quiescent
  /\ disconnectBody
  /\ req' = Disturb(req, 0)
  /\ last' = Nothing
  /\ UNCHANGED <<keyCount, cat>>

\* ---------------------------------------------------------- updateListener
\* the listener assigns and emits without comparing
MutantAccountsUpdateAlwaysEmits(s, a) ==
  /\ quiescent
  /\ signers[s].state = "wired"
  /\ accounts' = a
  /\ events' = << AccountsChanged(a) >>
  /\ req' = Disturb(req, 0)
  /\ calls' = << Update("onAccountsUpdate", s, a) >>
  /\ last' = Nothing
  /\ UNCHANGED <<chain, signer, signers, signerType, keys, keyCount, aux>>

\* a signer that was built and not released reports accounts
onAccountsUpdate(s, a) ==
  /\ quiescent
  /\ signers[s].state = "wired"
  /\ IF areAddressArraysEqual(accounts, a)
     THEN /\ events' = << >>
          /\ UNCHANGED <<accounts, req>>
     ELSE /\ accounts' = a
          /\ events' = << AccountsChanged(a) >>
          /\ req' = Disturb(req, 0)
  /\ calls' = << Update("onAccountsUpdate", s, a) >>
  /\ last' = Nothing
  /\ UNCHANGED <<chain, signer, signers, signerType, keys, keyCount, aux>>

\* the listener compares the chain ids only
MutantChainUpdateIdOnly(s, c) ==
  /\ quiescent
  /\ signers[s].state = "wired"
  /\ IF c.id = chain.id
     THEN /\ events' = << >>
          /\ UNCHANGED <<chain, req>>
     ELSE /\ chain' = c
          /\ events' = << ChainChanged(c) >>
          /\ req' = Disturb(req, 0)
  /\ calls' = << Update("onChainUpdate", s, c) >>
  /\ last' = Nothing
  /\ UNCHANGED <<accounts, signer, signers, signerType, keys, keyCount, aux>>

\* a signer that was built and not released reports a chain
onChainUpdate(s, c) ==
  /\ quiescent
  /\ signers[s].state = "wired"
  /\ IF c.id = chain.id /\ c.rpcUrl = chain.rpcUrl
     THEN /\ events' = << >>
          /\ UNCHANGED <<chain, req>>
     ELSE /\ chain' = c
          /\ events' = << ChainChanged(c) >>
          /\ req' = Disturb(req, 0)
  /\ calls' = << Update("onChainUpdate", s, c) >>
  /\ last' = Nothing
  /\ UNCHANGED <<accounts, signer, signers, signerType, keys, keyCount, aux>>

\* ---------------------------------------------------------------- request
\* every caught error disconnects
MutantDisconnectOnAnyError(code) == TRUE

\* handleUnauthorizedError: does the caught error call disconnect()?
handleUnauthorizedError(code) == code = Unauthorized

\* request()'s catch block, reached by a handler that throws synchronously
catch(r, args, code) ==
  /\ IF handleUnauthorizedError(code)
     THEN /\ disconnectBody
          /\ req' = Disturb(req, 0)
     ELSE /\ events' = << >>
          /\ calls' = << >>
          /\ UNCHANGED <<provider, req, handshaken>>
  /\ last' = Outcome("rejected", Begin("done", args), code, "none", TRUE,
                     handleUnauthorizedError(code))
  /\ UNCHANGED <<keyCount, cat>>

\* a handler that ends in its first run without touching provider state
settle(outcome, evs) ==
  /\ last' = outcome
  /\ events' = evs
  /\ calls' = << >>
  /\ UNCHANGED <<provider, req, keyCount, aux>>

\* a handler that suspends at its first await after calling a collaborator
suspend(r, slot, cs) ==
  /\ req' = [req EXCEPT ![r] = slot]
  /\ keyCount' = IF slot.key > keyCount THEN slot.key ELSE keyCount
  /\ calls' = cs
  /\ events' = << >>
  /\ last' = Nothing
  /\ UNCHANGED <<provider, aux>>

\* handlers.deprecated
deprecated(r, args) ==
  /\ quiescent
  /\ r = FreeSlot
  /\ categoryTable[args.method] = "deprecated"
  /\ catch(r, args, MethodNotSupported)

\* handlers.unsupported
unsupported(r, args) ==
  /\ quiescent
  /\ r = FreeSlot
  /\ categoryTable[args.method] = "unsupported"
  /\ catch(r, args, MethodNotSupported)

\* fetch hands the network a fresh default chain descriptor
MutantFetchDefaultChain(r, args) ==
  /\ quiescent
  /\ r = FreeSlot
  /\ categoryTable[args.method] = "fetch"
  /\ suspend(r, Begin("fetch_wait", args),
             << FetchCall(args, [id |-> DefaultChainId, rpcUrl |-> NoUrl], connected) >>)

\* handlers.fetch: fetchRPCRequest(request, this.chain)
fetch(r, args) ==
  /\ quiescent
  /\ r = FreeSlot
  /\ categoryTable[args.method] = "fetch"
  /\ suspend(r, Begin("fetch_wait", args), << FetchCall(args, chain, connected) >>)

\* handshake without the early return of the connected case
MutantHandshakeRenegotiates(r, args) ==
  /\ quiescent
  /\ r = FreeSlot
  /\ categoryTable[args.method] = "handshake"
  /\ suspend(r, Begin("hs_select", args),
             << Call("fetchSignerType", 0, NoArgs, connected) >>)

\* handlers.handshake up to `await this.requestSignerSelection()`
handshake(r, args) ==
  /\ quiescent
  /\ r = FreeSlot
  /\ categoryTable[args.method] = "handshake"
  /\ IF connected
     THEN settle(Resolved(Begin("done", args), accounts), << Connect(chain) >>)
     ELSE suspend(r, Begin("hs_select", args),
                  << Call("fetchSignerType", 0, NoArgs, connected) >>)

\* the check with the connection test left out
MutantNotAuthorizedSignerOnly(conn, sg) == sg = 0

\* the check with `&&` in place of `||`
MutantNotAuthorizedBoth(conn, sg) == ~conn /\ sg = 0

\* `!this.connected || !this.signer`
notAuthorized(conn, sg) == ~conn \/ sg = 0

isWalletGrant(args) ==
  /\ args.method = "wallet_grantPermissions"
  /\ args.params.permissions[1].signer.type = "wallet"

\* handlers.sign up to its first await; the key pair of a grant is numbered
\* when generateKey is called
sign(r, args) ==
  /\ quiescent
  /\ r = FreeSlot
  /\ categoryTable[args.method] = "sign"
  /\ isWalletGrant(args) /\ ~notAuthorized(connected, signer) => keyCount < MaxKeys
  /\ IF notAuthorized(connected, signer)
     THEN settle(Rejected(Begin("done", args), Unauthorized), << >>)
     ELSE IF isWalletGrant(args)
     THEN suspend(r, [Begin("grant_genkey", args) EXCEPT !.key = keyCount + 1,
                                                        !.accts = accounts],
                  << Call("crypto.subtle.generateKey", 0, NoArgs, connected) >>)
     ELSE suspend(r, [Begin("sign_wait", args) EXCEPT !.sid = signer, !.sent = args],
                  << Call("signer.request", signer, args, connected) >>)

\* handlers.signOrFetch up to `await getKeyForAddress(this.accounts[0])`
signOrFetch(r, args) ==
  /\ quiescent
  /\ r = FreeSlot
  /\ categoryTable[args.method] = "signOrFetch"
  /\ IF notAuthorized(connected, signer)
     THEN settle(Rejected(Begin("done", args), Unauthorized), << >>)
     ELSE IF args.method = "wallet_sendCalls"
     THEN LET first == IF connected THEN accounts[1] ELSE "undefined"
          IN  suspend(r, [Begin("sc_getkey", args) EXCEPT !.addr = first],
                      << Call("getKeyForAddress", 0,
                              [method |-> "get", params |-> first], connected) >>)
     ELSE settle(Rejected(Begin("done", args), UnsupportedMethod), << >>)

\* handlers.state up to its first await
state(r, args) ==
  /\ quiescent
  /\ r = FreeSlot
  /\ categoryTable[args.method] = "state"
  /\ CASE args.method = "eth_chainId" ->
            settle(Resolved(Begin("done", args), hexStringFromNumber(chain.id)), << >>)
       [] args.method = "net_version" ->
            settle(Resolved(Begin("done", args), chain.id), << >>)
       [] args.method \in {"eth_accounts", "eth_coinbase"} ->
            IF connected
            THEN settle(Resolved(Begin("done", args),
                                 IF args.method = "eth_accounts" THEN accounts
                                 ELSE accounts[1]), << >>)
            ELSE suspend(r, Begin("resume_getkey", args),
                         << Call("attemptToGetKey", 0, NoArgs, connected) >>)
       [] OTHER -> settle(Rejected(Begin("done", args), MethodNotSupported), << >>)

\* public request(args): dispatch on determineMethodCategory(args.method) ?? 'fetch'
request(r, args) ==
  \/ handshake(r, args)
  \/ sign(r, args)
  \/ fetch(r, args)
  \/ signOrFetch(r, args)
  \/ state(r, args)
  \/ deprecated(r, args)
  \/ unsupported(r, args)


\* ------------------------------------------------- steps after an await
\* a step that ends or moves the request of slot r and leaves the provider alone
proceed(r, slot, cs, outcome) ==
  /\ req' = [req EXCEPT ![r] = slot]
  /\ calls' = cs
  /\ events' = << >>
  /\ last' = outcome
  /\ UNCHANGED <<provider, keyCount, aux>>

\* initSigner(t): createSigner builds the next instance, wired to updateListener
initSigner(n, t) == [signers EXCEPT ![n] = [type |-> t, state |-> "wired"]]

\* fetchSignerType resolved with t: initSigner(t), then signer.handshake()
handshakeSelected(r, t) ==
  /\ quiescent
  /\ req[r].pc = "hs_select"
  /\ Built < MaxSigners
  /\ signers' = initSigner(Built + 1, t)
  /\ req' = [req EXCEPT ![r] = [@ EXCEPT !.pc = "hs_handshake", !.sid = Built + 1]]
  /\ calls' = << Call("signer.handshake", Built + 1, NoArgs, req[r].connAtIssue) >>
  /\ events' = << >>
  /\ last' = Nothing
  /\ UNCHANGED <<accounts, chain, signer, signerType, keys, keyCount, aux>>

\* fetchSignerType rejected
handshakeSelectFailed(r, code) ==
  /\ quiescent
  /\ req[r].pc = "hs_select"
  /\ proceed(r, Idle, << >>, Rejected(req[r], code))

\* the signer of the request finishes its handshake: it reports the accounts
\* through updateListener.onAccountsUpdate and resolves with them
signerHandshakeOk(r, a) ==
  /\ quiescent
  /\ req[r].pc = "hs_handshake"
  /\ accounts' = IF areAddressArraysEqual(accounts, a) THEN accounts ELSE a
  /\ events' = IF areAddressArraysEqual(accounts, a) THEN << >> ELSE << AccountsChanged(a) >>
  /\ req' = [Disturb(req, r) EXCEPT ![r] = [@ EXCEPT !.pc = "hs_resolved", !.accts = a]]
  /\ calls' = << Update("onAccountsUpdate", req[r].sid, a) >>
  /\ last' = Nothing
  /\ handshaken' = TRUE
  /\ UNCHANGED <<chain, signer, signers, signerType, keys, keyCount, cat>>

\* a rejected signer.handshake() is tried once more
MutantHandshakeFailedRetries(r, code) ==
  /\ quiescent
  /\ req[r].pc \in {"hs_handshake", "resume_hs"}
  /\ proceed(r, req[r], << Call("signer.handshake", req[r].sid, NoArgs, req[r].connAtIssue) >>,
             Nothing)

\* signer.handshake() rejected: the signer built for it stays as it is
signerHandshakeFailed(r, code) ==
  /\ quiescent
  /\ req[r].pc \in {"hs_handshake", "resume_hs"}
  /\ proceed(r, Idle, << >>, Rejected(req[r], code))

\* storeSignerType
storeSignerType(t) == t

\* handlers.handshake after `await signer.handshake()`
handshakeFinish(r) ==
  /\ quiescent
  /\ req[r].pc = "hs_resolved"
  /\ signer' = req[r].sid
  /\ signerType' = storeSignerType(signers[req[r].sid].type)
  /\ events' = << Connect(chain) >>
  /\ last' = Resolved([req[r] EXCEPT !.connects = @ + 1], req[r].accts)
  /\ req' = [Disturb(req, r) EXCEPT ![r] = Idle]
  /\ calls' = << >>
  /\ UNCHANGED <<accounts, chain, signers, keys, keyCount, aux>>

\* the answer of signer.request(...) to a forwarded request
signerResponds(r, res) ==
  /\ quiescent
  /\ req[r].pc = "sign_wait"
  /\ proceed(r, Idle, << >>,
             IF res = "ok" THEN Resolved(req[r], [result |-> "signer", of |-> req[r].sent])
             ELSE Rejected(req[r], res))

\* getCombinedPublicKey: the ABI encoding of the key's public point
getCombinedPublicKey(k) == [x |-> k, y |-> k]

\* the permissions of the grant request with the signer replaced
updatedPermissions(args, k) ==
  << [args.params.permissions[1] EXCEPT
        !.signer = [type |-> "passkey", data |-> [publicKey |-> getCombinedPublicKey(k)]]] >>

\* grant flow: generateKey resolved, getCombinedPublicKey awaited
grantKeyGenerated(r) ==
  /\ quiescent
  /\ req[r].pc = "grant_genkey"
  /\ proceed(r, [req[r] EXCEPT !.pc = "grant_export"],
             << Call("crypto.subtle.exportKey", 0, NoArgs, req[r].connAtIssue) >>, Nothing)

\* the grant request is forwarded as the caller wrote it
MutantGrantForwardsOriginal(r) ==
  /\ quiescent
  /\ req[r].pc = "grant_export"
  /\ proceed(r, [req[r] EXCEPT !.pc = "grant_wait", !.sent = req[r].args, !.sid = signer],
             << Call("signer.request", signer, req[r].args, req[r].connAtIssue) >>, Nothing)

\* grant flow: the rewritten request goes to this.signer
grantKeyExported(r) ==
  /\ quiescent
  /\ req[r].pc = "grant_export"
  /\ LET rewritten == [method |-> req[r].args.method,
                       params |-> [permissions |-> updatedPermissions(req[r].args, req[r].key)]]
     IN proceed(r, [req[r] EXCEPT !.pc = "grant_wait", !.sent = rewritten, !.sid = signer],
                << Call("signer.request", signer, rewritten, req[r].connAtIssue) >>, Nothing)

\* permission contexts the remote signer answers a grant with
Contexts == {"ctx1"}

\* grant flow: the signer answered; storeKeyForAddress(this.accounts[0], ...)
grantSignerResponds(r, res) ==
  /\ quiescent
  /\ req[r].pc = "grant_wait"
  /\ IF res \in Contexts
     THEN proceed(r, [req[r] EXCEPT !.pc = "grant_store", !.ctx = res,
                                    !.addr = IF connected THEN accounts[1] ELSE "undefined"],
                  << Call("getDatabase", 0, NoArgs, req[r].connAtIssue) >>, Nothing)
     ELSE proceed(r, Idle, << >>, Rejected(req[r], res))

\* a put that adds the record and leaves the one of the same address
MutantPutAdds(store, rec) == store \cup {rec}

\* db.put('keys', record): the record of the same address is replaced
put(store, rec) == { k \in store : k.address # rec.address } \cup {rec}

\* storeKeyForAddress after `await getDatabase()`: checksumAddress(undefined)
\* throws, else the record is put
grantStored(r) ==
  /\ quiescent
  /\ req[r].pc = "grant_store"
  /\ IF req[r].addr = "undefined"
     THEN /\ last' = Rejected(req[r], "TypeError")
          /\ UNCHANGED keys
     ELSE /\ keys' = put(keys, [address |-> checksumAddress(req[r].addr),
                                key |-> req[r].key,
                                permissionsContext |-> req[r].ctx,
                                permissions |-> req[r].sent.params.permissions])
          /\ last' = Resolved(req[r], [context |-> req[r].ctx])
  /\ req' = [req EXCEPT ![r] = Idle]
  /\ calls' = << >>
  /\ events' = << >>
  /\ UNCHANGED <<accounts, chain, signer, signers, signerType, keyCount, aux>>

\* db.get('keys', address)
get(store, a) == { k \in store : k.address = a }

\* the fill request carries the params as the caller wrote them
MutantFillKeepsCallerContext(args, ctx) ==
  [method |-> "wallet_fillUserOp", params |-> args.params]

\* the fill request: the stored context replaces the caller's
fillRequest(args, ctx) ==
  [method |-> "wallet_fillUserOp",
   params |-> [args.params EXCEPT !.capabilities.permissions.context = ctx]]

\* without a key the batch is forwarded with its permissions context removed
MutantKeyReadForwardsStripped(r) ==
  /\ quiescent
  /\ req[r].pc = "sc_getkey"
  /\ LET found == get(keys, checksumAddress(req[r].addr))
         stripped == [req[r].args EXCEPT
                        !.params.capabilities.permissions.context = "undefined"] IN
     IF found # {}
     THEN LET localKey == CHOOSE k \in found : TRUE IN
          proceed(r, [req[r] EXCEPT !.pc = "sc_fill", !.ctx = localKey.permissionsContext,
                                    !.key = localKey.key],
                  << Call("fetchPermissionsRPCRequest", 0,
                          fillRequest(req[r].args, localKey.permissionsContext),
                          req[r].connAtIssue) >>, Nothing)
     ELSE proceed(r, [req[r] EXCEPT !.pc = "sign_wait", !.sent = stripped, !.sid = signer],
                  << Call("signer.request", signer, stripped, req[r].connAtIssue) >>,
                  Nothing)

\* signOrFetch after `await getKeyForAddress(...)`
sendCallsKeyRead(r) ==
  /\ quiescent
  /\ req[r].pc = "sc_getkey"
  /\ LET found == get(keys, checksumAddress(req[r].addr)) IN
     IF found # {}
     THEN LET localKey == CHOOSE k \in found : TRUE IN
          proceed(r, [req[r] EXCEPT !.pc = "sc_fill", !.ctx = localKey.permissionsContext,
                                    !.key = localKey.key],
                  << Call("fetchPermissionsRPCRequest", 0,
                          fillRequest(req[r].args, localKey.permissionsContext),
                          req[r].connAtIssue) >>, Nothing)
     ELSE proceed(r, [req[r] EXCEPT !.pc = "sign_wait", !.sent = req[r].args, !.sid = signer],
                  << Call("signer.request", signer, req[r].args, req[r].connAtIssue) >>,
                  Nothing)

\* answers of the fill request: which fields the response holds
FillResponses == [userOp : BOOLEAN, hash : BOOLEAN, base64Hash : BOOLEAN]

\* the fill response is accepted without a hash
MutantFilledIgnoresHash(r, resp) ==
  /\ quiescent
  /\ req[r].pc = "sc_fill"
  /\ IF ~resp.userOp \/ ~resp.base64Hash
     THEN proceed(r, Idle, << >>, Rejected([req[r] EXCEPT !.fill = resp], Internal))
     ELSE proceed(r, [req[r] EXCEPT !.pc = "sc_sign", !.fill = resp],
                  << Call("signWithLocalKey", req[r].key, NoArgs, req[r].connAtIssue) >>,
                  Nothing)

\* signOrFetch after the fill request resolved
sendCallsFilled(r, resp) ==
  /\ quiescent
  /\ req[r].pc = "sc_fill"
  /\ IF ~resp.userOp \/ ~resp.hash \/ ~resp.base64Hash
     THEN proceed(r, Idle, << >>, Rejected([req[r] EXCEPT !.fill = resp], Internal))
     ELSE proceed(r, [req[r] EXCEPT !.pc = "sc_sign", !.fill = resp],
                  << Call("signWithLocalKey", req[r].key, NoArgs, req[r].connAtIssue) >>,
                  Nothing)

\* the fill or the submit request rejected, or the local signature failed
sendCallsFailed(r, code) ==
  /\ quiescent
  /\ req[r].pc \in {"sc_fill", "sc_sign", "sc_submit"}
  /\ proceed(r, Idle, << >>, Rejected(req[r], code))

\* signOrFetch after `await signWithLocalKey(...)`: the submit request
sendCallsSigned(r) ==
  /\ quiescent
  /\ req[r].pc = "sc_sign"
  /\ proceed(r, [req[r] EXCEPT !.pc = "sc_submit"],
             << Call("fetchPermissionsRPCRequest", 0,
                     [method |-> "wallet_sendUserOpWithSignature",
                      params |-> [chainId |-> numberToHex(chain.id),
                                  signedBy |-> req[r].key,
                                  permissionsContext |-> req[r].ctx]],
                     req[r].connAtIssue) >>, Nothing)

\* signOrFetch after the submit request resolved
sendCallsSubmitted(r) ==
  /\ quiescent
  /\ req[r].pc = "sc_submit"
  /\ proceed(r, Idle, << >>, Resolved(req[r], "callsId"))

\* the answer of fetchRPCRequest
fetchResponds(r, res) ==
  /\ quiescent
  /\ req[r].pc = "fetch_wait"
  /\ proceed(r, Idle, << >>,
             IF res = "ok" THEN Resolved(req[r], "rpcResult") ELSE Rejected(req[r], res))

\* attemptToGetKey: keys[0] of db.getAll('keys'), the record first in key order
attemptToGetKey(store) ==
  CHOOSE k \in store : \A o \in store : AddrRank(k.address) <= AddrRank(o.address)

\* getConnectedAccounts after `await attemptToGetKey()`
resumeKeyRead(r) ==
  /\ quiescent
  /\ req[r].pc = "resume_getkey"
  /\ IF keys = {}
     THEN proceed(r, Idle, << >>, Rejected(req[r], Unauthorized))
     ELSE /\ Built < MaxSigners
          /\ events' = << Connect(chain) >>
          /\ accounts' = << attemptToGetKey(keys).address >>
          /\ signers' = initSigner(Built + 1, "scw")
          /\ req' = [Disturb(req, r) EXCEPT ![r] =
                       [@ EXCEPT !.pc = "resume_hs", !.sid = Built + 1, !.connects = @ + 1,
                                 !.accts = << attemptToGetKey(keys).address >>]]
          /\ calls' = << Call("signer.handshake", Built + 1,
                              [method |-> "handshake",
                               params |-> << attemptToGetKey(keys).address >>],
                              req[r].connAtIssue) >>
          /\ last' = Nothing
          /\ UNCHANGED <<chain, signer, signerType, keys, keyCount, aux>>

\* the resumed signer finishes handshake(accounts): it reports those accounts
resumeHandshakeOk(r) ==
  /\ quiescent
  /\ req[r].pc = "resume_hs"
  /\ accounts' = IF areAddressArraysEqual(accounts, req[r].accts) THEN accounts
                 ELSE req[r].accts
  /\ events' = IF areAddressArraysEqual(accounts, req[r].accts) THEN << >>
               ELSE << AccountsChanged(req[r].accts) >>
  /\ req' = [Disturb(req, r) EXCEPT ![r] = [@ EXCEPT !.pc = "resume_resolved"]]
  /\ calls' = << Update("onAccountsUpdate", req[r].sid, req[r].accts) >>
  /\ last' = Nothing
  /\ handshaken' = TRUE
  /\ UNCHANGED <<chain, signer, signers, signerType, keys, keyCount, cat>>

\* the resumption ends without attaching the signer or writing its type
MutantResumeFinishDetached(r) ==
  /\ quiescent
  /\ req[r].pc = "resume_resolved"
  /\ last' = Resolved(req[r], IF req[r].args.method = "eth_accounts" THEN req[r].accts
                              ELSE req[r].accts[1])
  /\ req' = [Disturb(req, r) EXCEPT ![r] = Idle]
  /\ events' = << >>
  /\ calls' = << >>
  /\ UNCHANGED <<accounts, chain, signer, signerType, signers, keys, keyCount, aux>>

\* getConnectedAccounts after `await signer.handshake(accounts)`
resumeFinish(r) ==
  /\ quiescent
  /\ req[r].pc = "resume_resolved"
  /\ signer' = req[r].sid
  /\ signerType' = storeSignerType("scw")
  /\ last' = Resolved(req[r], IF req[r].args.method = "eth_accounts" THEN req[r].accts
                              ELSE req[r].accts[1])
  /\ req' = [Disturb(req, r) EXCEPT ![r] = Idle]
  /\ events' = << >>
  /\ calls' = << >>
  /\ UNCHANGED <<accounts, chain, signers, keys, keyCount, aux>>

\* the notifications have reached the listeners and the outcome the caller of
\* request(); the logs of the step are dropped
observed ==
  /\ ~quiescent
  /\ events' = << >>
  /\ calls' = << >>
  /\ last' = Nothing
  /\ UNCHANGED <<provider, req, keyCount, aux>>

\* ------------------------------------------------------------------- Next
Next ==
  \/ observed
  \/ \E r \in Slots, args \in RequestArgs : request(r, args)
  \/ disconnect
  \/ \E s \in SignerIds, a \in AccountLists : onAccountsUpdate(s, a)
  \/ \E s \in SignerIds, c \in Chains : onChainUpdate(s, c)
  \/ \E r \in Slots, t \in SignerTypes : handshakeSelected(r, t)
  \/ \E r \in Slots, e \in CollaboratorErrors : handshakeSelectFailed(r, e)
  \/ \E r \in Slots, a \in AccountLists : signerHandshakeOk(r, a)
  \/ \E r \in Slots, e \in CollaboratorErrors : signerHandshakeFailed(r, e)
  \/ \E r \in Slots : handshakeFinish(r)
  \/ \E r \in Slots, res \in {"ok"} \cup CollaboratorErrors : signerResponds(r, res)
  \/ \E r \in Slots : grantKeyGenerated(r)
  \/ \E r \in Slots : grantKeyExported(r)
  \/ \E r \in Slots, res \in Contexts \cup CollaboratorErrors : grantSignerResponds(r, res)
  \/ \E r \in Slots : grantStored(r)
  \/ \E r \in Slots : sendCallsKeyRead(r)
  \/ \E r \in Slots, resp \in FillResponses : sendCallsFilled(r, resp)
  \/ \E r \in Slots, e \in CollaboratorErrors : sendCallsFailed(r, e)
  \/ \E r \in Slots : sendCallsSigned(r)
  \/ \E r \in Slots : sendCallsSubmitted(r)
  \/ \E r \in Slots, res \in {"ok"} \cup CollaboratorErrors : fetchResponds(r, res)
  \/ \E r \in Slots : resumeKeyRead(r)
  \/ \E r \in Slots : resumeHandshakeOk(r)
  \/ \E r \in Slots : resumeFinish(r)

Spec == Init /\ [][Next]_vars


\* ------------------------------------------------- categorizer on its own
\* determineMethodCategory applied to every method name under every order of
\* the category keys; the provider is left as constructed
InitCat ==
  /\ accounts = << >>
  /\ chain = [id |-> DefaultChainId, rpcUrl |-> NoUrl]
  /\ signer = 0
  /\ signers = [s \in SignerIds |-> NoSigner]
  /\ signerType = "none"
  /\ handshaken = FALSE
  /\ keys = {}
  /\ req = [r \in Slots |-> Idle]
  /\ keyCount = 0
  /\ events = << >>
  /\ calls = << >>
  /\ last = Nothing
  /\ catMethod \in Methods
  /\ catOrder = SourceOrder
  /\ catResult = Unset
  /\ sigBytes = << >>
  /\ sigOut = NoSig
  /\ stores = [w \in Writers |-> NoStore]
  /\ written = << >>
  /\ waIn = NoAssertion
  /\ waOut = NoAssertion

\* two neighbouring categories change places in the iteration order
reorder(i) ==
  /\ catResult = Unset
  /\ catOrder' = [catOrder EXCEPT ![i] = catOrder[i + 1], ![i + 1] = catOrder[i]]
  /\ UNCHANGED <<provider, req, keyCount, logs, catMethod, catResult, sigBytes, sigOut,
               stores, written, waIn, waOut, handshaken>>

\* const category = determineMethodCategory(args.method) ?? 'fetch'
categorize ==
  /\ catResult = Unset
  /\ catResult' =
       [found |-> determineMethodCategoryIn(catOrder, catMethod),
        dispatched |-> IF determineMethodCategoryIn(catOrder, catMethod) = "undefined"
                       THEN "fetch"
                       ELSE determineMethodCategoryIn(catOrder, catMethod)]
  /\ UNCHANGED <<provider, req, keyCount, logs, catMethod, catOrder, sigBytes, sigOut,
               stores, written, waIn, waOut, handshaken>>

NextCat ==
  \/ \E i \in 1..(Len(mapping) - 1) : reorder(i)
  \/ categorize

SpecCat == InitCat /\ [][NextCat]_vars


\* ------------------------------------------- extractRSFromSig on its own
\* extractRSFromSig applied to every signature of Signatures; the provider is
\* left as constructed
InitSig ==
  /\ accounts = << >>
  /\ chain = [id |-> DefaultChainId, rpcUrl |-> NoUrl]
  /\ signer = 0
  /\ signers = [s \in SignerIds |-> NoSigner]
  /\ signerType = "none"
  /\ handshaken = FALSE
  /\ keys = {}
  /\ req = [r \in Slots |-> Idle]
  /\ keyCount = 0
  /\ events = << >>
  /\ calls = << >>
  /\ last = Nothing
  /\ catMethod = ""
  /\ catOrder = SourceOrder
  /\ catResult = Unset
  /\ sigBytes \in Signatures
  /\ sigOut = NoSig
  /\ stores = [w \in Writers |-> NoStore]
  /\ written = << >>
  /\ waIn = NoAssertion
  /\ waOut = NoAssertion

\* const { r, s } = extractRSFromSig(base64Signature)
extract ==
  /\ sigOut = NoSig
  /\ sigOut' = extractRSFromSig(sigBytes)
  /\ UNCHANGED <<provider, req, keyCount, logs, catMethod, catOrder, catResult, sigBytes,
               stores, written, waIn, waOut, handshaken>>

\* the components returned are written as a raw signature r || s again (when
\* each fits its bytes) and handed to extractRSFromSig once more
reextract ==
  /\ sigOut # NoSig
  /\ ComponentBytes = 1
  /\ sigOut.r \in 0..(2^8 - 1) /\ sigOut.s \in 0..(2^8 - 1)
  /\ sigBytes # << sigOut.r, sigOut.s >>
  /\ sigBytes' = << sigOut.r, sigOut.s >>
  /\ sigOut' = extractRSFromSig(<< sigOut.r, sigOut.s >>)
  /\ UNCHANGED <<provider, req, keyCount, logs, catMethod, catOrder, catResult,
               stores, written, waIn, waOut, handshaken>>

NextSig ==
  \/ extract
  \/ reextract

SpecSig == InitSig /\ [][NextSig]_vars


\* ------------------------------------------------ the key store on its own
\* storeKeyForAddress called by concurrent writers on an empty 'keys' store;
\* the provider is left as constructed
StoreKeys == {1, 2}
StoreContexts == {"ctx1", "ctx2"}

InitStore ==
  /\ accounts = << >>
  /\ chain = [id |-> DefaultChainId, rpcUrl |-> NoUrl]
  /\ signer = 0
  /\ signers = [s \in SignerIds |-> NoSigner]
  /\ signerType = "none"
  /\ handshaken = FALSE
  /\ keys = {}
  /\ req = [r \in Slots |-> Idle]
  /\ keyCount = 0
  /\ events = << >>
  /\ calls = << >>
  /\ last = Nothing
  /\ catMethod = ""
  /\ catOrder = SourceOrder
  /\ catResult = Unset
  /\ sigBytes = << >>
  /\ sigOut = NoSig
  /\ stores = [w \in Writers |-> NoStore]
  /\ written = << >>
  /\ waIn = NoAssertion
  /\ waOut = NoAssertion

\* storeKeyForAddress(address, key, permissionsContext, permissions) up to
\* `await getDatabase()`
storeKeyForAddress(w, a, k, ctx) ==
  /\ stores[w] = NoStore
  /\ stores' = [stores EXCEPT ![w] =
                  [phase |-> "open", address |-> a, key |-> k, permissionsContext |-> ctx,
                   permissions |-> << [signer |-> [type |-> "passkey",
                                       data |-> [publicKey |-> getCombinedPublicKey(k)]]] >>,
                   seen |-> Len(written)]]
  /\ UNCHANGED <<provider, req, keyCount, logs, catMethod, catOrder, catResult, sigBytes,
               sigOut, written, waIn, waOut, handshaken>>

\* storeKeyForAddress after `await getDatabase()`: the record is put in one
\* transaction of the object store
storePut(w) ==
  /\ stores[w].phase = "open"
  /\ keys' = put(keys, [address |-> checksumAddress(stores[w].address),
                        key |-> stores[w].key,
                        permissionsContext |-> stores[w].permissionsContext,
                        permissions |-> stores[w].permissions])
  /\ stores' = [stores EXCEPT ![w].phase = "done"]
  /\ written' = Append(written, [address |-> stores[w].address, key |-> stores[w].key,
                                 permissionsContext |-> stores[w].permissionsContext,
                                 permissions |-> stores[w].permissions])
  /\ UNCHANGED <<accounts, chain, signer, signers, signerType, req, keyCount, logs,
               catMethod, catOrder, catResult, sigBytes, sigOut, waIn, waOut, handshaken>>

\* getKeyForAddress(address): db.get('keys', checksumAddress(address))
getKeyForAddress(a) == get(keys, checksumAddress(a))

NextStore ==
  \/ \E w \in Writers, a \in Addresses, k \in StoreKeys, ctx \in StoreContexts :
       storeKeyForAddress(w, a, k, ctx)
  \/ \E w \in Writers : storePut(w)

SpecStore == InitStore /\ [][NextStore]_vars


\* ------------------------------------- buildWebAuthnSignature on its own
\* A string is the sequence of its code points (one UTF-16 unit each, all
\* below 2^11), a byte string the sequence of its bytes.

\* the literals '"challenge":' and '"type":'
ChallengeKey == << 34, 99, 104, 97, 108, 108, 101, 110, 103, 101, 34, 58 >>
TypeKey == << 34, 116, 121, 112, 101, 34, 58 >>

\* the pieces client-data strings are put together from: the two literals, a
\* quote and the letter e with acute accent (two bytes in UTF-8)
Segments == { ChallengeKey, TypeKey, << 34 >>, << 233 >> }

RECURSIVE TextsOf(_)
TextsOf(n) ==
  IF n = 0 THEN { << >> }
  ELSE TextsOf(n - 1) \cup { t \o g : t \in TextsOf(n - 1), g \in Segments }

\* stringToHex / isoBase64URL.fromUTF8String: the UTF-8 bytes of a string
RECURSIVE stringToHex(_)
stringToHex(str) ==
  IF str = << >> THEN << >>
  ELSE (IF Head(str) < 128 THEN << Head(str) >>
        ELSE << 192 + (Head(str) \div 64), 128 + (Head(str) % 64) >>)
       \o stringToHex(Tail(str))

\* isoBase64URL.toUTF8String: the string of UTF-8 bytes; a byte that starts no
\* character decodes to U+FFFD
RECURSIVE toUTF8String(_)
toUTF8String(b) ==
  IF b = << >> THEN << >>
  ELSE IF Head(b) < 128 THEN << Head(b) >> \o toUTF8String(Tail(b))
  ELSE IF Head(b) >= 192 /\ Head(b) < 224 /\ Len(b) >= 2 /\ b[2] >= 128 /\ b[2] < 192
       THEN << (Head(b) - 192) * 64 + (b[2] - 128) >> \o toUTF8String(Tail(Tail(b)))
  ELSE << 65533 >> \o toUTF8String(Tail(b))

\* String.prototype.indexOf: the index of the first occurrence, -1 if none
indexOf(str, needle) ==
  LET at == { i \in 0..(Len(str) - Len(needle)) :
                SubSeq(str, i + 1, i + Len(needle)) = needle }
  IN  IF at = {} THEN -1 ELSE CHOOSE i \in at : \A j \in at : i <= j

\* getClientDataJSON(hash): JSON.stringify of { type, challenge, origin,
\* crossOrigin } in that order, as UTF-8 bytes
getClientDataJSON(hash, origin) ==
  stringToHex(<< 123 >> \o TypeKey
              \o << 34, 119, 101, 98, 97, 117, 116, 104, 110, 46, 103, 101, 116, 34, 44 >>
              \o ChallengeKey \o << 34 >> \o hash \o << 34 >>
              \o << 44, 34, 111, 114, 105, 103, 105, 110, 34, 58, 34 >> \o origin \o << 34 >>
              \o << 44, 34, 99, 114, 111, 115, 115, 79, 114, 105, 103, 105, 110, 34, 58,
                    102, 97, 108, 115, 101, 125 >>)

\* the largest uint256, with the width scaled as for the signature components
UintMax == 2^(8 * ComponentBytes) - 1

\* encodeAbiParameters accepts a negative uint256 and writes it modulo 2^256
MutantEncodeNumberWraps(v) == [error |-> FALSE, word |-> v % (UintMax + 1)]

\* viem's encoder of a uint256: a value outside 0..2^256-1 is refused
\* (IntegerOutOfRangeError)
encodeNumber(v) ==
  IF v < 0 \/ v > UintMax THEN [error |-> TRUE, word |-> 0] ELSE [error |-> FALSE, word |-> v]

\* a dynamic `bytes` value: its length, then its bytes
encodeBytes(b) == << Len(b) >> \o b

\* encodeAbiParameters([WebAuthnAuthStruct], [t]): the head holds the offsets of
\* the two `bytes` fields and the four uint256 words, the tail the two fields
encodeAbiParameters(t) ==
  IF \E v \in { t.challengeIndex, t.typeIndex, t.r, t.s } : encodeNumber(v).error
  THEN [error |-> "IntegerOutOfRangeError"]
  ELSE [encoded |->
          << 6, 7 + Len(t.authenticatorData),
             encodeNumber(t.challengeIndex).word, encodeNumber(t.typeIndex).word,
             encodeNumber(t.r).word, encodeNumber(t.s).word >>
          \o encodeBytes(t.authenticatorData) \o encodeBytes(t.clientDataJSON)]

\* buildWebAuthnSignature({ authenticatorData, clientDataJSON, r, s })
buildWebAuthnSignature(in) ==
  LET jsonClientDataUtf8 == toUTF8String(in.clientDataJSON)
      challengeIndex == indexOf(jsonClientDataUtf8, ChallengeKey)
      typeIndex == indexOf(jsonClientDataUtf8, TypeKey)
  IN  encodeAbiParameters([authenticatorData |-> in.authenticatorData,
                           clientDataJSON |-> stringToHex(jsonClientDataUtf8),
                           challengeIndex |-> challengeIndex,
                           typeIndex |-> typeIndex,
                           r |-> in.r, s |-> in.s])

\* the arguments: authenticator data, the client data of an authenticator or of
\* getClientDataJSON, and r and s as extractRSFromSig returns them (s can be
\* negative)
AssertionInputs ==
  [authenticatorData : { << >>, << 5, 0 >> },
   clientDataJSON : { stringToHex(t) : t \in TextsOf(MaxSegments) }
                    \cup { getClientDataJSON(<< 65, 45 >>, << 104, 116, 116, 112, 115, 58, 47, 47, 97 >>) },
   r : { 0, UintMax },
   s : { -1, 0, curveOrder \div 2 }]

InitAssertion ==
  /\ accounts = << >>
  /\ chain = [id |-> DefaultChainId, rpcUrl |-> NoUrl]
  /\ signer = 0
  /\ signers = [x \in SignerIds |-> NoSigner]
  /\ signerType = "none"
  /\ handshaken = FALSE
  /\ keys = {}
  /\ req = [x \in Slots |-> Idle]
  /\ keyCount = 0
  /\ events = << >>
  /\ calls = << >>
  /\ last = Nothing
  /\ catMethod = ""
  /\ catOrder = SourceOrder
  /\ catResult = Unset
  /\ sigBytes = << >>
  /\ sigOut = NoSig
  /\ stores = [w \in Writers |-> NoStore]
  /\ written = << >>
  /\ waIn \in AssertionInputs
  /\ waOut = NoAssertion

\* const webAuthnSignature = buildWebAuthnSignature({ ... })
build ==
  /\ waOut = NoAssertion
  /\ waOut' = buildWebAuthnSignature(waIn)
  /\ UNCHANGED <<provider, req, keyCount, logs, catMethod, catOrder, catResult, sigBytes,
               sigOut, stores, written, waIn, handshaken>>

NextAssertion == build

SpecAssertion == InitAssertion /\ [][NextAssertion]_vars


\* ================================================================= claims
Done == last.kind # "none"

Emitted(t) == \E i \in 1..Len(events) : events[i].type = t

\* the hex chain id a notification must carry for chain id n
ChainIdHex(n) == IF n = DefaultChainId THEN "0x1" ELSE "0xa"

AccountQueries == {"eth_accounts", "eth_coinbase"}

\* C1: a request for any method of the sign set issued while accounts is
\* empty, with or without a signer handle, is rejected with Unauthorized, and
\* signer.request is never called for a sign-set request issued disconnected.
C1_SignDisconnectedUnauthorized ==
  /\ (Done /\ last.args.method \in MethodSet("sign") /\ ~last.connAtIssue)
       => (last.kind = "rejected" /\ last.code = Unauthorized)
  /\ \A i \in 1..Len(calls) :
       (calls[i].op = "signer.request" /\ calls[i].args.method \in MethodSet("sign"))
         => calls[i].conn
  /\ \A r \in Slots :
       (req[r].pc # "idle" /\ req[r].args.method \in MethodSet("sign"))
         => req[r].connAtIssue

\* a sign request was refused while a signer handle existed
C1_Witness ==
  /\ Done /\ last.kind = "rejected" /\ last.code = Unauthorized
  /\ last.args.method = "personal_sign" /\ ~last.connAtIssue
  /\ signer # 0

\* C2 as stated: every method of the sign and handshake sets, invoked while
\* disconnected, yields Unauthorized and leaves accounts empty.
C2_Original ==
  (Done /\ ~last.connAtIssue
        /\ last.args.method \in MethodSet("sign") \cup MethodSet("handshake"))
    => (last.kind = "rejected" /\ last.code = Unauthorized /\ accounts = << >>)

\* C2 amended: every method of the sign set, invoked while disconnected, yields
\* Unauthorized in the same step, with accounts empty and nothing emitted or
\* called; a handshake method invoked while disconnected is not refused by the
\* provider: it goes to signer selection and, when it resolves, returns the
\* non-empty accounts of the signer's handshake.
C2_SignSetUnauthorized ==
  /\ (Done /\ ~last.connAtIssue /\ last.args.method \in MethodSet("sign"))
       => /\ last.kind = "rejected" /\ last.code = Unauthorized
          /\ accounts = << >> /\ events = << >> /\ calls = << >>
  /\ (Done /\ ~last.connAtIssue /\ last.args.method \in MethodSet("handshake"))
       => /\ last.sid # 0 \/ last.code \in CollaboratorErrors
          /\ last.kind = "resolved" => (last.value \in AccountLists /\ signer = last.sid)

\* a sign request refused on a provider that never had a signer
C2_Witness ==
  /\ Done /\ last.kind = "rejected" /\ last.code = Unauthorized
  /\ last.args.method = "wallet_grantPermissions" /\ ~last.connAtIssue
  /\ signer = 0 /\ accounts = << >>

\* C3: whenever a request fails with Unauthorized, disconnect() has run before
\* the error reaches the caller: accounts empty, chain reset, disconnect emitted.
C3_UnauthorizedDisconnects ==
  (Done /\ last.kind = "rejected" /\ last.code = Unauthorized)
    => /\ last.disconnected
       /\ accounts = << >>
       /\ chain = [id |-> DefaultChainId, rpcUrl |-> NoUrl]
       /\ Emitted("disconnect")

\* C4: after disconnect() accounts is empty, chain.id is 1, the active signer is
\* released, the signer-type record is absent, no session-key record is
\* stored, and a disconnect notification was emitted.
C4_DisconnectClearsAll ==
  Emitted("disconnect")
    => /\ accounts = << >>
       /\ chain.id = DefaultChainId
       /\ signer # 0 => signers[signer].state = "released"
       /\ signerType = "none"
       /\ keys = {}

\* a handshake issued disconnected with no signer handle has resolved
HandshakeResolved ==
  /\ Done /\ last.kind = "resolved"
  /\ last.args.method \in MethodSet("handshake")
  /\ ~last.connAtIssue /\ ~last.prior

\* C5 as stated: such a handshake ends with the signer attached, accounts
\* non-empty, the signer type persisted and connect fired exactly once with
\* the chain id that was active when the request was issued.
C5_Original ==
  HandshakeResolved
    => /\ signer = last.sid /\ signer # 0
       /\ accounts # << >>
       /\ signerType = signers[last.sid].type
       /\ last.connects = 1
       /\ events = << [type |-> "connect", chainId |-> ChainIdHex(last.chainAtIssue)] >>

\* C5 amended: such a handshake ends with the signer built for it attached and
\* wired, its type persisted, the signer's non-empty accounts returned, and
\* connect fired exactly once carrying the chain id active when it is emitted;
\* accounts equal the returned ones and the chain id is the one of the time
\* of issue when no disconnect() and no signer update ran in between.
C5_HandshakeConnects ==
  HandshakeResolved
    => /\ signer = last.sid /\ signer # 0
       /\ signers[signer].state = "wired"
       /\ signerType = signers[last.sid].type
       /\ last.value \in AccountLists
       /\ last.connects = 1
       /\ events = << [type |-> "connect", chainId |-> ChainIdHex(chain.id)] >>
       /\ last.quiet => (accounts = last.value /\ chain.id = last.chainAtIssue)

\* the handshake resolved undisturbed on a chain other than the default
C5_Witness ==
  /\ HandshakeResolved /\ last.quiet
  /\ chain.id # DefaultChainId /\ accounts = last.value
  /\ Emitted("connect")

\* C6: a handshake issued while connected resolves in the same step with the
\* current accounts, emits connect with the current chain id, calls no
\* collaborator (no negotiation, no new signer) and changes nothing.
C6_HandshakeIdempotent ==
  [][ /\ (last'.kind # "none" /\ last'.args.method \in MethodSet("handshake")
          /\ last'.connAtIssue)
        => /\ last'.kind = "resolved"
           /\ last'.value = accounts
           /\ events' = << [type |-> "connect", chainId |-> ChainIdHex(chain.id)] >>
           /\ calls' = << >>
           /\ UNCHANGED <<accounts, chain, signer, signers, signerType, keys, req>>
      /\ \A r \in Slots :
           (req'[r].pc # "idle" /\ req'[r].args.method \in MethodSet("handshake"))
             => ~req'[r].connAtIssue
    ]_vars

\* a connected provider on a non-default chain answered a handshake
C6_Witness ==
  /\ Done /\ last.kind = "resolved" /\ last.connAtIssue
  /\ last.args.method = "eth_requestAccounts"
  /\ chain.id # DefaultChainId /\ Emitted("connect") /\ signerType # "none"

\* C7: a request for a deprecated or unsupported method fails in the same step
\* with MethodNotSupported, connected or not, calls no collaborator, emits
\* nothing, does not disconnect and changes nothing.
C7_NotSupportedFails ==
  [][ /\ (last'.kind # "none"
          /\ categoryTable[last'.args.method] \in {"deprecated", "unsupported"})
        => /\ last'.kind = "rejected"
           /\ last'.code = MethodNotSupported
           /\ ~last'.disconnected
           /\ events' = << >>
           /\ calls' = << >>
           /\ UNCHANGED <<accounts, chain, signer, signers, signerType, keys, req>>
      /\ \A r \in Slots :
           req'[r].pc # "idle"
             => categoryTable[req'[r].args.method] \notin {"deprecated", "unsupported"}
    ]_vars

\* a deprecated method was refused on a connected provider, which stays connected
C7_Witness ==
  /\ Done /\ last.kind = "rejected" /\ last.code = MethodNotSupported
  /\ last.args.method = "eth_sign" /\ last.connAtIssue
  /\ connected /\ signer # 0 /\ signerType # "none"

\* C8: no method name is in two category sets; under every iteration order of
\* the categories a name of a set yields that set's category and a name of no
\* set yields undefined, which request() dispatches as fetch.
C8_CategorizerTotal ==
  /\ Cardinality({ c \in Categories : catMethod \in MethodSet(c) }) <= 1
  /\ catResult # Unset
       => /\ catResult.found = determineMethodCategory(catMethod)
          /\ \A c \in Categories : catMethod \in MethodSet(c) => catResult.found = c
          /\ catMethod \notin MappedMethods
               => (catResult.found = "undefined" /\ catResult.dispatched = "fetch")
          /\ catMethod \in MappedMethods => catResult.dispatched = catResult.found

\* a deprecated method categorized with the categories visited in another order
C8_Witness ==
  /\ catResult # Unset /\ catResult.found = "deprecated"
  /\ catOrder[1] = Len(mapping) /\ catOrder # SourceOrder

\* C9: a fetch-category request (every unmapped method included) is handed to
\* fetchRPCRequest with the chain descriptor of that moment, connected or not;
\* neither its issue nor its completion calls the signer or changes accounts,
\* chain, signer or persisted state.
C9_FetchForwards ==
  [][ \A r \in Slots :
        /\ (req[r].pc = "idle" /\ req'[r].pc # "idle"
            /\ categoryTable[req'[r].args.method] = "fetch")
             => /\ req'[r].pc = "fetch_wait"
                /\ Len(calls') = 1
                /\ calls'[1].op = "fetchRPCRequest"
                /\ calls'[1].args = req'[r].args
                /\ calls'[1].chain = chain
                /\ events' = << >>
                /\ UNCHANGED <<accounts, chain, signer, signers, signerType, keys>>
        /\ (last'.kind # "none" /\ categoryTable[last'.args.method] = "fetch")
             => /\ \E x \in Slots : req[x].pc = "fetch_wait" /\ req'[x].pc = "idle"
                /\ calls' = << >>
                /\ events' = << >>
                /\ UNCHANGED <<accounts, chain, signer, signers, signerType, keys>>
        /\ req'[r].pc = "fetch_wait" <=>
             (req'[r].pc # "idle" /\ categoryTable[req'[r].args.method] = "fetch")
    ]_vars

\* an unmapped method was forwarded with a non-default chain while connected
C9_Witness ==
  /\ Len(calls) = 1 /\ calls[1].op = "fetchRPCRequest"
  /\ calls[1].args.method = "wallet_getActivePermissions"
  /\ calls[1].chain = chain /\ chain.rpcUrl # NoUrl /\ connected

\* C10 as stated: an account query is answered from accounts when connected;
\* when disconnected with a stored record the provider ends connected with
\* accounts = [record.address], a signer attached and the type persisted, and
\* returns those accounts; with no record it fails Unauthorized, accounts empty.
C10_Original ==
  (Done /\ last.args.method \in AccountQueries)
    => IF last.connAtIssue
       THEN last.kind = "resolved"
       ELSE IF last.sid # 0
       THEN /\ last.kind = "resolved"
            /\ \E k \in keys : accounts = << k.address >>
            /\ signer = last.sid
            /\ signerType # "none"
       ELSE /\ last.kind = "rejected" /\ last.code = Unauthorized
            /\ accounts = << >>

\* C10 amended: an account query is answered from accounts when connected.
\* When disconnected it reads the store: with no record it fails Unauthorized
\* and changes nothing; with a record it sets accounts to [record.address] and
\* starts the handshake of a new scw signer, and only if that handshake
\* succeeds it attaches the signer, persists the type scw and returns
\* [record.address] (eth_coinbase: the address); the provider then is connected
\* with those accounts when no disconnect() or signer update ran in between.
C10_SilentResumption ==
  [][ /\ (last'.kind # "none" /\ last'.args.method \in AccountQueries /\ last'.connAtIssue)
        => /\ last'.kind = "resolved"
           /\ last'.value = IF last'.args.method = "eth_accounts" THEN accounts
                            ELSE accounts[1]
           /\ UNCHANGED <<accounts, chain, signer, signers, signerType, keys, req>>
      /\ \A r \in Slots :
           /\ (req[r].pc = "idle" /\ req'[r].pc # "idle"
               /\ req'[r].args.method \in AccountQueries)
                => /\ ~connected
                   /\ req'[r].pc = "resume_getkey"
                   /\ UNCHANGED <<accounts, chain, signer, signers, signerType, keys>>
           /\ (req[r].pc = "resume_getkey" /\ req'[r].pc # "resume_getkey")
                => IF keys = {}
                   THEN /\ last'.kind = "rejected" /\ last'.code = Unauthorized
                        /\ req'[r].pc = "idle"
                        /\ UNCHANGED <<accounts, chain, signer, signers, signerType, keys>>
                        /\ last'.quiet => accounts' = << >>
                   ELSE /\ req'[r].pc = "resume_hs"
                        /\ \E k \in keys : accounts' = << k.address >>
                        /\ req'[r].accts = accounts'
                        /\ signers[req'[r].sid].state = "absent"
                        /\ signers'[req'[r].sid] = [type |-> "scw", state |-> "wired"]
                        /\ UNCHANGED <<signer, signerType, keys>>
           /\ (req[r].pc \in {"resume_hs", "resume_resolved"} /\ req'[r].pc = "idle")
                => IF last'.kind = "resolved"
                   THEN /\ req[r].pc = "resume_resolved"
                        /\ signer' = req[r].sid
                        /\ signerType' = "scw"
                        /\ last'.value = IF req[r].args.method = "eth_accounts"
                                         THEN req[r].accts ELSE req[r].accts[1]
                        /\ last'.quiet => (accounts' = req[r].accts /\ Len(accounts') > 0)
                   ELSE /\ req[r].pc = "resume_hs"
                        /\ last'.code \in CollaboratorErrors
                        /\ UNCHANGED <<signer, signerType>>
    ]_vars

\* a silent resumption has ended connected with the stored address
C10_Witness ==
  /\ Done /\ last.kind = "resolved" /\ last.args.method = "eth_coinbase"
  /\ ~last.connAtIssue /\ last.quiet
  /\ accounts = << last.value >> /\ signer = last.sid /\ signerType = "scw"

\* the signer's call of updateListener.<op> the last step handled, if any
Updated(cs, op) ==
  { cs[i].args.params : i \in { j \in 1..Len(cs) : cs[j].op = "updateListener"
                                                  /\ cs[j].args.method = op } }

\* C11: an account or chain update from a signer whose value equals the current
\* one (same set of addresses; same id and rpcUrl) emits nothing and changes no
\* provider state; one whose value differs replaces accounts or chain with it
\* and emits exactly one accountsChanged or chainChanged for it.  Conversely a
\* step emits accountsChanged or chainChanged only with an actual change, so a
\* second chain update with the same {id, rpcUrl} emits no second chainChanged.
C11_UpdatesOnlyOnChange ==
  [][ /\ \A c \in Updated(calls', "onChainUpdate") :
           IF c.id = chain.id /\ c.rpcUrl = chain.rpcUrl
           THEN events' = << >> /\ UNCHANGED provider
           ELSE /\ chain' = c /\ events' = << ChainChanged(c) >>
                /\ UNCHANGED <<accounts, signer, signers, signerType, keys>>
      /\ \A a \in Updated(calls', "onAccountsUpdate") :
           IF ToSet(a) = ToSet(accounts)
           THEN events' = << >> /\ UNCHANGED provider
           ELSE /\ accounts' = a /\ events' = << AccountsChanged(a) >>
                /\ UNCHANGED <<chain, signer, signers, signerType, keys>>
      /\ \A i \in 1..Len(events') :
           /\ events'[i].type = "chainChanged"
                => /\ chain' # chain
                   /\ events'[i].chainId = ChainIdHex(chain'.id)
                   /\ Updated(calls', "onChainUpdate") = {chain'}
           /\ events'[i].type = "accountsChanged"
                => /\ ToSet(accounts') # ToSet(accounts)
                   /\ events'[i].accounts = accounts'
                   /\ Updated(calls', "onAccountsUpdate") = {accounts'}
    ]_vars

\* a chain update repeating the {id, rpcUrl} an earlier update had set was
\* handled without a notification
C11_Witness ==
  /\ Updated(calls, "onChainUpdate") = {chain}
  /\ chain.rpcUrl # NoUrl
  /\ events = << >>
  /\ connected

\* the stored session-key records that hold key pair k
RecordsOf(k) == { rec \in keys : rec.key = k }

\* C12 as stated: whenever the remote signer has answered such a grant with a
\* context, a record with the new key, that context and the rewritten
\* permissions is stored when the request ends.
C12_Original ==
  (Done /\ isWalletGrant(last.args) /\ last.connAtIssue /\ last.ctx \in Contexts)
    => \E rec \in RecordsOf(last.key) :
         /\ rec.permissionsContext = last.ctx
         /\ rec.permissions = updatedPermissions(last.args, last.key)

\* C12 amended: for a wallet_grantPermissions request with signer type "wallet"
\* issued while connected, the key pair is new (no stored record holds it
\* before the store), the only request the remote signer gets is the rewritten
\* one (type passkey with the new key's public point), and when the signer
\* answers with a context while accounts is non-empty the request resolves with
\* that context and a record of the new key, the context and the rewritten
\* permissions is stored under the checksummed first account of that moment;
\* when accounts is empty by then (disconnect() ran meanwhile) the request
\* rejects and no record of the new key is stored.
C12_GrantStoresKey ==
  /\ \A i \in 1..Len(calls) :
       (calls[i].op = "signer.request" /\ calls[i].args.method = "wallet_grantPermissions")
         => /\ calls[i].args.params.permissions[1].signer.type # "wallet"
            /\ calls[i].conn
            /\ \E r \in Slots :
                 /\ req[r].pc \in {"grant_wait", "sign_wait"}
                 /\ calls = << Call("signer.request", req[r].sid, req[r].sent, TRUE) >>
  /\ \A r \in Slots :
       /\ req[r].pc \in {"grant_genkey", "grant_export", "grant_wait", "grant_store"}
            => /\ isWalletGrant(req[r].args) /\ req[r].connAtIssue
               /\ RecordsOf(req[r].key) = {}
       /\ req[r].pc \in {"grant_wait", "grant_store"}
            => /\ req[r].sent.method = "wallet_grantPermissions"
               /\ req[r].sent.params.permissions = updatedPermissions(req[r].args, req[r].key)
               /\ req[r].sent.params.permissions[1].signer =
                    [type |-> "passkey",
                     data |-> [publicKey |-> getCombinedPublicKey(req[r].key)]]
               /\ req[r].sent # req[r].args
  /\ (Done /\ isWalletGrant(last.args) /\ last.connAtIssue /\ last.ctx \in Contexts)
       => IF last.addr # "undefined"
          THEN /\ last.kind = "resolved" /\ last.value = [context |-> last.ctx]
               /\ RecordsOf(last.key) =
                    { [address |-> checksumAddress(last.addr), key |-> last.key,
                       permissionsContext |-> last.ctx,
                       permissions |-> updatedPermissions(last.args, last.key)] }
               /\ last.addr \in Addresses
          ELSE /\ last.kind = "rejected" /\ RecordsOf(last.key) = {}
  /\ (Done /\ isWalletGrant(last.args) /\ last.connAtIssue /\ last.kind = "resolved")
       => last.ctx \in Contexts

\* a wallet grant resolved and its record replaced the one stored before for
\* the connected account
C12_Witness ==
  /\ Done /\ isWalletGrant(last.args) /\ last.kind = "resolved"
  /\ connected /\ accounts[1] = AddrA
  /\ \E rec \in keys : rec.address = AddrA /\ rec.key = last.key /\ rec.key # 0
  /\ Cardinality(keys) = 1

\* the steps of the delegated-signing flow after the key was found
DelegatedPcs == {"sc_fill", "sc_sign", "sc_submit"}

\* the calls of the last step whose operation is op
CallsOf(cs, op) == { i \in 1..Len(cs) : cs[i].op = op }

\* C13: a wallet_sendCalls request issued while connected for which
\* getKeyForAddress finds a record of the first account makes, in this order
\* and each at most once, a fill request whose permissions context is the
\* stored one, a signWithLocalKey call with the stored key, and a submit
\* request with the chain id, the signature and the stored context; it
\* resolves only after the submit, with the submit response's callsId, and no
\* step of it calls the remote signer.
C13_DelegatedSigning ==
  [][ \A r \in Slots :
        /\ (req[r].pc = "sc_getkey" /\ req'[r].pc # "sc_getkey")
             => IF get(keys, checksumAddress(req[r].addr)) # {}
                THEN /\ req'[r].pc = "sc_fill"
                     /\ \E rec \in get(keys, checksumAddress(req[r].addr)) :
                          /\ req'[r].ctx = rec.permissionsContext
                          /\ req'[r].key = rec.key
                     /\ Len(calls') = 1
                     /\ calls'[1].op = "fetchPermissionsRPCRequest"
                     /\ calls'[1].args.method = "wallet_fillUserOp"
                     /\ calls'[1].args.params.capabilities.permissions.context = req'[r].ctx
                ELSE /\ req'[r].pc = "sign_wait"
                     /\ CallsOf(calls', "fetchPermissionsRPCRequest") = {}
        /\ (req[r].pc = "sc_fill" /\ req'[r].pc # "sc_fill")
             => \/ /\ req'[r].pc = "sc_sign"
                   /\ calls' = << Call("signWithLocalKey", req[r].key, NoArgs, TRUE) >>
                \/ /\ req'[r].pc = "idle" /\ last'.kind = "rejected" /\ calls' = << >>
        /\ (req[r].pc = "sc_sign" /\ req'[r].pc # "sc_sign")
             => \/ /\ req'[r].pc = "sc_submit"
                   /\ Len(calls') = 1
                   /\ calls'[1].op = "fetchPermissionsRPCRequest"
                   /\ calls'[1].args.method = "wallet_sendUserOpWithSignature"
                   /\ calls'[1].args.params.signedBy = req[r].key
                   /\ calls'[1].args.params.permissionsContext = req[r].ctx
                   /\ calls'[1].args.params.chainId = numberToHex(chain.id)
                \/ /\ req'[r].pc = "idle" /\ last'.kind = "rejected" /\ calls' = << >>
        /\ (req[r].pc = "sc_submit" /\ req'[r].pc # "sc_submit")
             => /\ req'[r].pc = "idle" /\ calls' = << >>
                /\ last'.kind = "resolved" => last'.value = "callsId"
        /\ (req'[r] # req[r] /\ (req[r].pc \in DelegatedPcs \/ req'[r].pc \in DelegatedPcs))
             => /\ CallsOf(calls', "signer.request") = {}
                /\ req'[r].sid = 0
                /\ req'[r].pc \in DelegatedPcs => req'[r].key = req[r].key
                                                   \/ req[r].pc = "sc_getkey"
        /\ (last'.kind = "resolved" /\ last'.args.method = "wallet_sendCalls"
            /\ req[r].pc # "idle" /\ req'[r].pc = "idle")
             => IF last'.sid = 0
                THEN req[r].pc = "sc_submit" /\ last'.value = "callsId" /\ last'.ctx # ""
                ELSE req[r].pc = "sign_wait"
    ]_vars

\* a batch whose caller named a context of its own went through fill, local
\* signature and submit and resolved with the callsId
C13_Witness ==
  /\ Done /\ last.kind = "resolved" /\ last.args.method = "wallet_sendCalls"
  /\ last.sid = 0 /\ last.value = "callsId"
  /\ last.args.params.capabilities.permissions.context = "ctxCaller"
  /\ last.ctx # "ctxCaller"
  /\ connected

\* a fill response that holds the user operation, the hash and the base64 hash
Complete(f) == f \in FillResponses /\ f.userOp /\ f.hash /\ f.base64Hash

\* C14: when the fill response lacks the user operation, the hash or the base64
\* hash, the request rejects with Internal in that step: signWithLocalKey is not
\* called, no submit or second fill request is made, nothing is emitted and
\* accounts, chain, signer and stored state are as before (a connected provider
\* stays connected); the flow goes on to the signature only with a complete
\* response, and Internal has no other origin.
C14_FillIncompleteFails ==
  [][ \A r \in Slots :
        /\ (req[r].pc = "sc_fill" /\ req'[r].pc # "sc_fill")
             => IF last'.kind # "none" /\ last'.fill \in FillResponses
                THEN /\ ~Complete(last'.fill)
                     /\ req'[r].pc = "idle"
                     /\ last'.kind = "rejected" /\ last'.code = Internal
                     /\ calls' = << >> /\ events' = << >>
                     /\ UNCHANGED provider
                ELSE \/ req'[r].pc = "sc_sign" /\ Complete(req'[r].fill) /\ last'.kind = "none"
                     \/ /\ req'[r].pc = "idle" /\ last'.kind = "rejected"
                        /\ last'.code \in CollaboratorErrors
        /\ req'[r].pc \in {"sc_sign", "sc_submit"} => Complete(req'[r].fill)
        /\ (last'.kind # "none" /\ last'.code = Internal)
             => \E x \in Slots : req[x].pc = "sc_fill" /\ req'[x].pc = "idle"
        /\ (\E i \in CallsOf(calls', "signWithLocalKey") : TRUE)
             => \E x \in Slots : req[x].pc = "sc_fill" /\ Complete(req'[x].fill)
    ]_vars

\* a fill response without the hash was refused on a connected provider
C14_Witness ==
  /\ Done /\ last.kind = "rejected" /\ last.code = Internal
  /\ last.fill \in FillResponses
  /\ last.fill.userOp /\ ~last.fill.hash /\ last.fill.base64Hash
  /\ connected /\ calls = << >>
  /\ \A r \in Slots : req[r].pc = "idle"

\* C15: a wallet_sendCalls request issued while connected for which
\* getKeyForAddress finds no record of the first account is handed, exactly as
\* the caller wrote it, to this.signer in one signer.request call; no step of
\* it makes a fill or submit request, and it ends with the signer's answer.
C15_NoKeyForwards ==
  [][ \A r \in Slots :
        /\ (req[r].pc = "sc_getkey" /\ req'[r].pc # "sc_getkey"
            /\ get(keys, checksumAddress(req[r].addr)) = {})
             => /\ req'[r].pc = "sign_wait"
                /\ req[r].connAtIssue /\ signer # 0
                /\ calls' = << Call("signer.request", signer, req[r].args, TRUE) >>
                /\ req'[r].sent = req[r].args /\ req'[r].args = req[r].args
                /\ req'[r].sid = signer
                /\ UNCHANGED provider
        /\ (req[r].pc = "sign_wait" /\ req[r].args.method = "wallet_sendCalls"
            /\ req'[r] # req[r])
             => /\ req'[r].pc = "idle"
                /\ CallsOf(calls', "fetchPermissionsRPCRequest") = {}
                /\ last'.kind # "none" /\ last'.args = req[r].args
                /\ last'.kind = "resolved"
                     => last'.value = [result |-> "signer", of |-> req[r].args]
        /\ (\E i \in CallsOf(calls', "fetchPermissionsRPCRequest") : TRUE)
             => \E x \in Slots : req'[x].pc \in {"sc_fill", "sc_submit"} /\ req'[x].ctx # ""
    ]_vars

\* a batch was answered by the remote signer while the key store held a record
\* of another account only
C15_Witness ==
  /\ Done /\ last.kind = "resolved" /\ last.args.method = "wallet_sendCalls"
  /\ last.sid # 0 /\ last.sid = signer
  /\ last.sent = last.args
  /\ last.args.params.capabilities.permissions.context = "ctxCaller"
  /\ connected /\ accounts[1] = AddrB
  /\ keys # {} /\ get(keys, AddrB) = {}

\* the s component as the bytes of the signature spell it
RawS == bytesToBigInt(SubSeq(sigBytes, ComponentBytes + 1, Len(sigBytes)))

\* C16: extractRSFromSig returns r unchanged, s' = order - s when s > order/2
\* and s' = s otherwise, and the s it returns always lies in [0, order/2].
C16_LowS ==
  sigOut # NoSig
    => /\ sigOut.r = bytesToBigInt(SubSeq(sigBytes, 1, ComponentBytes))
       /\ RawS > curveOrder \div 2 => sigOut.s = curveOrder - RawS
       /\ RawS <= curveOrder \div 2 => sigOut.s = RawS
       /\ sigOut.s \in 0..(curveOrder \div 2)

\* C17: every rejection request() hands its caller went through
\* serializeError(error, args.method) and is tagged with the method name.
C17_FailuresSerialized ==
  (Done /\ last.kind = "rejected")
    => (last.serialized /\ last.tag = last.args.method)

\* this.signer is set and that signer has not been disconnected
SignerAttached == signer # 0 /\ signers[signer].state = "wired"

\* C18: in every state accounts is non-empty only if a signer is attached, and
\* the state disconnect() leaves has empty accounts and no active signer.
C18_AccountsNeedSigner ==
  /\ connected => SignerAttached
  /\ Emitted("disconnect") => (accounts = << >> /\ ~SignerAttached)

\* the signers whose updates the provider's updateListener still takes
Wired == { s \in SignerIds : signers[s].state = "wired" }

\* C19: at most one signer is active: when a signer has been created, every
\* signer created before it has been released and its account and chain
\* updates no longer reach the provider.
C19_OneActiveSigner ==
  /\ Cardinality(Wired) <= 1
  /\ \A s \in Wired : \A o \in SignerIds : o < s => signers[o].state = "released"

\* C20: whenever the signer-type record is present, a signer handshake (of a
\* handshake request or of a silent resumption) has succeeded since the most
\* recent disconnect(); a disconnect() leaves the record absent.
C20_TypeOnlyAfterHandshake ==
  /\ signerType # "none" => handshaken
  /\ Emitted("disconnect") => signerType = "none"

\* the notifications of type t the step has emitted
EventsOf(evs, t) == { i \in 1..Len(evs) : evs[i].type = t }

\* C21 as stated: connect is emitted only by a step that takes the provider
\* from disconnected to connected, disconnect only by one that takes it from
\* connected to disconnected, accountsChanged only with a change of the account
\* set and chainChanged only with a change of the chain id.
C21_Original ==
  [][ /\ EventsOf(events', "connect") # {} => (~connected /\ connected')
      /\ EventsOf(events', "disconnect") # {} => (connected /\ ~connected')
      /\ EventsOf(events', "accountsChanged") # {} => ToSet(accounts') # ToSet(accounts)
      /\ EventsOf(events', "chainChanged") # {} => chain'.id # chain.id
    ]_vars

\* C21 amended: a step emits at most one notification.  connect is emitted
\* when a handshake request completes, when a silent resumption has found a
\* key, and again by every handshake request issued while connected (no
\* transition); disconnect is emitted by every disconnect(), also when accounts
\* is already empty; accountsChanged is emitted only when the account set
\* changes and chainChanged only when the chain id or the rpcUrl changes.
C21_NotificationsPerChange ==
  [][ /\ Len(events') <= 1
      /\ EventsOf(events', "connect") # {}
           => /\ events'[1].chainId = ChainIdHex(chain'.id)
              /\ \/ /\ connected /\ last'.kind = "resolved"
                     /\ last'.args.method = "eth_requestAccounts"
                     /\ last'.connAtIssue /\ UNCHANGED provider
                  \/ \E r \in Slots : (req[r].pc = "hs_resolved" /\ req'[r].pc = "idle")
                  \/ \E x \in Slots : /\ req[x].pc = "resume_getkey"
                                       /\ req'[x].pc = "resume_hs"
                                       /\ connected'
      /\ EventsOf(events', "disconnect") # {}
           => /\ accounts' = << >> /\ chain'.id = DefaultChainId /\ signerType' = "none"
              /\ calls' # << >> => calls'[1].op = "signer.disconnect"
      /\ EventsOf(events', "accountsChanged") # {}
           => /\ ToSet(accounts') # ToSet(accounts)
              /\ events'[1].accounts = accounts'
      /\ EventsOf(events', "chainChanged") # {}
           => /\ (chain'.id # chain.id \/ chain'.rpcUrl # chain.rpcUrl)
              /\ events'[1].chainId = ChainIdHex(chain'.id)
    ]_vars

\* disconnect() ran on a provider that was already disconnected and emitted
\* its notification again
C21_Witness ==
  /\ Emitted("disconnect") /\ accounts = << >>
  /\ signer = 0 /\ calls = << >>
  /\ signerType = "none" /\ ~handshaken

\* the steps at which handlers.sign waits for a collaborator: the request has
\* passed the check of `!this.connected || !this.signer`
SignPcs == {"grant_genkey", "sign_wait"}

\* C22: a disconnect() that runs while requests are in flight is not undone by
\* them: as long as no signer handshake (of a handshake request or of a silent
\* resumption) has succeeded since the disconnect(), a sign-category request
\* is rejected with Unauthorized and never reaches a signer.
C22_DisconnectHolds ==
  [][ ~handshaken =>
        \A r \in Slots : ~(req[r].pc = "idle" /\ req'[r].pc \in SignPcs)
    ]_vars

\* the order in which the handlers pass their awaits
StepRank ==
  [pc \in {"idle"} \cup ConnectingPcs \cup DelegatedPcs \cup SignPcs
           \cup {"grant_export", "grant_wait", "grant_store", "sc_getkey", "fetch_wait"} |->
     CASE pc = "idle" -> 0
       [] pc \in {"hs_select", "resume_getkey", "grant_genkey", "sc_getkey", "fetch_wait"} -> 1
       [] pc \in {"hs_handshake", "resume_hs", "grant_export", "sc_fill"} -> 2
       [] pc \in {"hs_resolved", "resume_resolved", "grant_wait", "sc_sign"} -> 3
       [] pc \in {"grant_store", "sc_submit"} -> 4
       [] OTHER -> 5]

\* the calls a request makes of its collaborators
Collaborated(cs) ==
  { i \in 1..Len(cs) : cs[i].op \notin {"updateListener", "signer.disconnect"} }

\* C23: the provider never retries.  A step makes at most one call of a
\* collaborator, and only as the request moves on to a later await of its
\* handler, so that no negotiation, signer handshake, signer request, fill,
\* local signature or submit is invoked twice within one request(); a failure
\* ends the request at once and invokes nothing.
C23_NoRetry ==
  [][ /\ Cardinality(Collaborated(calls')) <= 1
      /\ \A r \in Slots :
            req'[r].pc # req[r].pc
              => (req'[r].pc = "idle" \/ StepRank[req'[r].pc] > StepRank[req[r].pc])
      /\ Collaborated(calls') # {}
           => \E r \in Slots : /\ req'[r].pc # req[r].pc
                                /\ req'[r].pc # "idle"
                                /\ \A x \in Slots \ {r} : req'[x].pc = req[x].pc
      /\ last'.kind = "rejected"
           => /\ Collaborated(calls') = {}
              /\ \A r \in Slots : req'[r].pc \in {req[r].pc, "idle"}
    ]_vars

\* a wallet_sendCalls request whose fill succeeded failed at a later step and
\* has ended
C23_Witness ==
  /\ Done /\ last.kind = "rejected" /\ last.code = UserRejected
  /\ last.args.method = "wallet_sendCalls"
  /\ last.fill \in FillResponses /\ Complete(last.fill)
  /\ calls = << >>

\* an address with its letters in lower case
Lower(a) == IF a = AddrA THEN AddrALower ELSE IF a = AddrB THEN "0xcd" ELSE a

\* the puts done so far for the account of address a, whatever its letter case
PutsFor(a) == { i \in 1..Len(written) : Lower(written[i].address) = Lower(a) }

\* the largest member of a non-empty set of numbers
Latest(S) == CHOOSE i \in S : \A j \in S : j <= i

\* a record without its address
Payload(rec) ==
  [key |-> rec.key, permissionsContext |-> rec.permissionsContext,
   permissions |-> rec.permissions]

\* C24: the store keeps at most one record per checksummed address.
\* getKeyForAddress(a) returns nothing when no put was done for the account of
\* a, and otherwise exactly one record: the whole record of the last put done
\* for that account, whatever the letter case of the addresses and whatever
\* puts were done for other accounts or were open at the same time.
C24_OneRecordPerAddress ==
  /\ \A a \in Addresses :
        IF PutsFor(a) = {} THEN getKeyForAddress(a) = {}
        ELSE /\ Cardinality(getKeyForAddress(a)) = 1
             /\ \A rec \in getKeyForAddress(a) :
                   /\ Payload(rec) = Payload(written[Latest(PutsFor(a))])
                   /\ Lower(rec.address) = Lower(a)
  /\ \A k1, k2 \in keys : Lower(k1.address) = Lower(k2.address) => k1 = k2

\* two grants for one account, written with different letter case and open at
\* the same time, have both been put: one record is left, the second writer's
C24_Witness ==
  /\ Len(written) = 2
  /\ \A w \in Writers : stores[w].phase = "done" /\ stores[w].seen = 0
  /\ written[1].address = AddrA /\ written[2].address = AddrALower
  /\ written[1].key # written[2].key
  /\ written[1].permissionsContext # written[2].permissionsContext
  /\ Cardinality(keys) = 1
  /\ \A rec \in keys : rec.key = written[2].key

\* the byte string holds the bytes of the (ASCII) literal
Holds(bytes, literal) ==
  \E i \in 0..(Len(bytes) - Len(literal)) : SubSeq(bytes, i + 1, i + Len(literal)) = literal

\* C25: whenever the client-data JSON lacks the literal "challenge": or lacks
\* the literal "type":, buildWebAuthnSignature fails with the codec's error and
\* returns no encoded assertion.
C25_MissingLiteralFails ==
  (waOut # NoAssertion
     /\ (~Holds(waIn.clientDataJSON, ChallengeKey) \/ ~Holds(waIn.clientDataJSON, TypeKey)))
    => waOut = [error |-> "IntegerOutOfRangeError"]

\* client data with "type": and without "challenge":, r and s in range:
\* buildWebAuthnSignature has thrown
C25_Witness ==
  /\ waOut = [error |-> "IntegerOutOfRangeError"]
  /\ Holds(waIn.clientDataJSON, TypeKey) /\ ~Holds(waIn.clientDataJSON, ChallengeKey)
  /\ waIn.r = UintMax /\ waIn.s = curveOrder \div 2

\* the `bytes` field whose offset is the i-th word of the head
BytesAt(e, i) == SubSeq(e, e[i] + 2, e[i] + 1 + e[e[i] + 1])

\* the encoded tuple decoded into its fields
Decoded(e) ==
  [authenticatorData |-> BytesAt(e, 1), clientDataJSON |-> BytesAt(e, 2),
   challengeIndex |-> e[3], typeIndex |-> e[4], r |-> e[5], s |-> e[6]]

\* the offset of the first byte at which the literal begins (-1: nowhere)
ByteOffset(bytes, literal) ==
  LET at == { i \in 0..(Len(bytes) - Len(literal)) :
                SubSeq(bytes, i + 1, i + Len(literal)) = literal }
  IN  IF at = {} THEN -1 ELSE CHOOSE i \in at : \A j \in at : i <= j

\* C26: buildWebAuthnSignature round-trips: the fields of the encoded tuple
\* are the authenticatorData, the UTF-8 client-data JSON, r and s it was given,
\* and challengeIndex and typeIndex are the byte offsets in the UTF-8
\* client-data JSON at which "challenge": and "type": first begin.
C26_RoundTrip ==
  (waOut # NoAssertion /\ waOut # [error |-> "IntegerOutOfRangeError"])
    => /\ Decoded(waOut.encoded).authenticatorData = waIn.authenticatorData
       /\ Decoded(waOut.encoded).clientDataJSON = waIn.clientDataJSON
       /\ Decoded(waOut.encoded).r = waIn.r
       /\ Decoded(waOut.encoded).s = waIn.s
       /\ Decoded(waOut.encoded).challengeIndex = ByteOffset(waIn.clientDataJSON, ChallengeKey)
       /\ Decoded(waOut.encoded).typeIndex = ByteOffset(waIn.clientDataJSON, TypeKey)

\* C27: a handshake request issued while disconnected that fails, in the
\* negotiation or in the signer's handshake, with no other change of the
\* provider meanwhile, leaves the provider as it was: accounts empty, the signer
\* handle as before, no connect notification, and the signer created for the
\* attempt no longer wired to the provider.
C27_FailedHandshakeNoTrace ==
  (Done /\ last.kind = "rejected" /\ last.args.method = "eth_requestAccounts"
     /\ ~last.connAtIssue /\ last.quiet)
    => /\ accounts = << >>
       /\ ~Emitted("connect") /\ last.connects = 0
       /\ last.prior <=> (signer # 0)
       /\ last.sid # 0 => signers[last.sid].state # "wired"

\* C28: a silent resumption is all or nothing: when an accounts query issued
\* while disconnected fails, the provider is left disconnected and the request
\* has emitted no connect notification.
C28_ResumptionAllOrNothing ==
  (Done /\ last.kind = "rejected" /\ last.args.method \in AccountQueries
     /\ ~last.connAtIssue /\ last.quiet)
    => (accounts = << >> /\ last.connects = 0)

\* C29: the grant flow stores its record under the primary account of the
\* moment the grant was issued, and only while the provider is still connected
\* to that account; otherwise it stores nothing.
C29_GrantStoresForIssuer ==
  [][ \A r \in Slots :
        (req[r].pc = "grant_store" /\ req'[r].pc = "idle")
          => \A rec \in keys' \ keys :
               /\ rec.address = checksumAddress(req[r].accts[1])
               /\ connected
               /\ checksumAddress(accounts[1]) = checksumAddress(req[r].accts[1])
    ]_vars

\* C30: wallet_getActivePermissions is answered from local state: it never
\* reaches the network, and issued while disconnected it is rejected with
\* Unauthorized, issued connected without params with InvalidParams.
C30_ActivePermissionsLocal ==
  /\ \A i \in 1..Len(calls) :
        calls[i].op = "fetchRPCRequest" => calls[i].args.method # "wallet_getActivePermissions"
  /\ (Done /\ last.args.method = "wallet_getActivePermissions")
       => /\ last.kind = "rejected"
          /\ last.code = IF last.connAtIssue THEN InvalidParams ELSE Unauthorized
====
